---- MODULE Spec2Model ----
(***************************************************************************)
(* A model of setup.py: the script imports setuptools, reads               *)
(* requirements.txt inside a with block, evaluates the keyword arguments   *)
(* of setup() in source order (find_packages() on line 12, then            *)
(* open('README.md').read() on line 18) and calls setup() once.            *)
(*                                                                         *)
(* A file's content is a sequence of one-character strings.  The file      *)
(* system maps each path to a record: kind "absent" (no such file),        *)
(* "denied" (exists, open() raises PermissionError), "undecodable"         *)
(* (open() succeeds, read() raises UnicodeDecodeError) or "text".          *)
(*                                                                         *)
(* setuptools is taken to be installed (the import on line 1 succeeds) and *)
(* find_packages() to return; what setup() and its plugins do with the     *)
(* keyword arguments is outside the script and is not modelled.            *)
(***************************************************************************)
EXTENDS Integers, Sequences, FiniteSets, TLC

VARIABLES pc, fs, handles, exc, requirements, packages, long_description,
          calls, events

vars == <<pc, fs, handles, exc, requirements, packages, long_description,
          calls, events>>

(* ------------------------------ bounds -------------------------------- *)

MaxReqLen == 3

MaxReadmeLen == 2

(* ---------------------------- characters ------------------------------ *)

LF == "\n"

CR == "\r"

FF == "\f"

ReqChars == {"a", "#", " ", LF, CR, FF}

ReadmeChars == {"x", LF, CR}

RECURSIVE SeqsUpTo(_, _)
SeqsUpTo(S, n) ==
    IF n = 0 THEN {<<>>}
    ELSE LET shorter == SeqsUpTo(S, n - 1)
         IN  shorter \cup {Append(s, c) : s \in {t \in shorter : Len(t) = n - 1}, c \in S}

(* ----------------------------- file names ----------------------------- *)

REQ == "requirements.txt"

README == "README.md"

PKG_INIT == "my_package/__init__.py"

Paths == {REQ, README, PKG_INIT}

Text(data) == [kind |-> "text", data |-> data]

Absent == [kind |-> "absent", data |-> <<>>]

Denied == [kind |-> "denied", data |-> <<>>]

Undecodable == [kind |-> "undecodable", data |-> <<>>]

(* ------------------------- built-in functions ------------------------- *)

(* The mode the script opens its files with: open(name) is open(name, 'r'). *)
WriteMode == "w"

ReadMode == "r"

(* open(name, mode): whether it returns a handle, and the file system after
   it.  'r' needs an existing, permitted file and changes nothing; 'w'
   creates the file or truncates it. *)
open(fsys, name, mode) ==
    IF mode = "r"
    THEN [ok |-> fsys[name].kind \in {"text", "undecodable"}, fs |-> fsys]
    ELSE IF fsys[name].kind = "denied"
         THEN [ok |-> FALSE, fs |-> fsys]
         ELSE [ok |-> TRUE, fs |-> [fsys EXCEPT ![name] = Text(<<>>)]]

(* f.read() of a text-mode handle (newline=None): universal newlines, every
   "\r\n" and every lone "\r" is delivered as "\n". *)
RECURSIVE read(_)
read(data) ==
    IF data = <<>> THEN <<>>
    ELSE IF Head(data) = CR
         THEN IF Len(data) >= 2 /\ data[2] = LF
              THEN <<LF>> \o read(SubSeq(data, 3, Len(data)))
              ELSE <<LF>> \o read(Tail(data))
         ELSE <<Head(data)>> \o read(Tail(data))

(* The characters str.splitlines() ends a line at.  Python's full set is
   \n \r \r\n \v \f \x1c \x1d \x1e \x85 \u2028 \u2029; FF stands for the
   ones that are not line terminators of a file. *)
LineBreaks == {LF, CR, FF}

(* str.splitlines() without keepends, as the loop of the implementation:
   j is the start of the current line and i the scanning position; at a
   boundary the line s[j..i-1] is appended and "\r\n" is skipped as one
   boundary; the remainder after the last boundary is a line only when it
   is not empty. *)
RECURSIVE SplitLoop(_, _, _, _)
SplitLoop(s, j, i, list) ==
    IF i > Len(s)
    THEN IF j <= Len(s) THEN Append(list, SubSeq(s, j, Len(s))) ELSE list
    ELSE IF s[i] \in LineBreaks
         THEN IF s[i] = CR /\ i < Len(s) /\ s[i + 1] = LF
              THEN SplitLoop(s, i + 2, i + 2, Append(list, SubSeq(s, j, i - 1)))
              ELSE SplitLoop(s, i + 1, i + 1, Append(list, SubSeq(s, j, i - 1)))
         ELSE SplitLoop(s, j, i + 1, list)

splitlines(s) == SplitLoop(s, 1, 1, <<>>)

(* find_packages(): the directories of the working directory that hold an
   __init__.py. *)
find_packages(fsys) ==
    IF fsys[PKG_INIT].kind = "absent" THEN <<>> ELSE <<"my_package">>

(* The with statement's __exit__: the file is closed whether or not the
   body raised. *)
WithExitLeaky(h, raised) == IF raised THEN h ELSE "closed"

WithExit(h, raised) == "closed"

(* ----------------------------- the script ----------------------------- *)

(* Statement order of the script; the keyword arguments of setup() are
   evaluated top to bottom before the call. *)
SuccReadmeFirst(at) ==
    CASE at = "import"        -> "open_readme"
      [] at = "open_readme"   -> "read_readme"
      [] at = "read_readme"   -> "open_req"
      [] at = "open_req"      -> "read_req"
      [] at = "read_req"      -> "exit_with"
      [] at = "exit_with"     -> "find_packages"
      [] at = "find_packages" -> "setup"
      [] at = "setup"         -> "done"

SuccSetupAgain(at) ==
    CASE at = "import"        -> "open_req"
      [] at = "open_req"      -> "read_req"
      [] at = "read_req"      -> "exit_with"
      [] at = "exit_with"     -> "find_packages"
      [] at = "find_packages" -> "open_readme"
      [] at = "open_readme"   -> "read_readme"
      [] at = "read_readme"   -> "setup"
      [] at = "setup"         -> "setup"

Succ(at) ==
    CASE at = "import"        -> "open_req"
      [] at = "open_req"      -> "read_req"
      [] at = "read_req"      -> "exit_with"
      [] at = "exit_with"     -> "find_packages"
      [] at = "find_packages" -> "open_readme"
      [] at = "open_readme"   -> "read_readme"
      [] at = "read_readme"   -> "setup"
      [] at = "setup"         -> "done"

(* No statement of the script is inside a try: an exception raised at any
   of them ends the run with a traceback. *)
PropagateSwallowed(at) ==
    CASE at = "open_req"    -> "find_packages"
      [] at = "open_readme" -> "setup"
      [] OTHER              -> "fatal"

Propagate(at) == "fatal"

(* The keyword arguments of the setup() call. *)
SetupKwargsNoReadme(reqs, pkgs, readme) ==
    [name                          |-> "my_package",
     version                       |-> "0.1",
     include_package_data          |-> TRUE,
     python_requires               |-> ">=3.8",
     packages                      |-> pkgs,
     setup_requires                |-> <<"setuptools-git-versioning">>,
     install_requires              |-> reqs,
     author                        |-> "Abdellah HALLOU",
     author_email                  |-> "abdeallahhallou33@gmail.com",
     description                   |-> "A short description of your package",
     long_description              |-> <<>>,
     long_description_content_type |-> "text/markdown",
     classifiers                   |-> <<"Programming Language :: Python :: 3.8",
                                         "License :: OSI Approved :: MIT License",
                                         "Operating System :: OS Independent">>,
     version_config                |-> [dirty_template |-> "{tag}"]]

SetupKwargsNoPlugin(reqs, pkgs, readme) ==
    [name                          |-> "my_package",
     version                       |-> "0.1",
     include_package_data          |-> TRUE,
     python_requires               |-> ">=3.8",
     packages                      |-> pkgs,
     setup_requires                |-> <<>>,
     install_requires              |-> reqs,
     author                        |-> "Abdellah HALLOU",
     author_email                  |-> "abdeallahhallou33@gmail.com",
     description                   |-> "A short description of your package",
     long_description              |-> readme,
     long_description_content_type |-> "text/markdown",
     classifiers                   |-> <<"Programming Language :: Python :: 3.8",
                                         "License :: OSI Approved :: MIT License",
                                         "Operating System :: OS Independent">>,
     version_config                |-> [dirty_template |-> "{tag}.dirty"]]

SetupKwargs(reqs, pkgs, readme) ==
    [name                          |-> "my_package",
     version                       |-> "0.1",
     include_package_data          |-> TRUE,
     python_requires               |-> ">=3.8",
     packages                      |-> pkgs,
     setup_requires                |-> <<"setuptools-git-versioning">>,
     install_requires              |-> reqs,
     author                        |-> "Abdellah HALLOU",
     author_email                  |-> "abdeallahhallou33@gmail.com",
     description                   |-> "A short description of your package",
     long_description              |-> readme,
     long_description_content_type |-> "text/markdown",
     classifiers                   |-> <<"Programming Language :: Python :: 3.8",
                                         "License :: OSI Approved :: MIT License",
                                         "Operating System :: OS Independent">>,
     version_config                |-> [dirty_template |-> "{tag}"]]

Event(op, file, mode, ok) == [op |-> op, file |-> file, mode |-> mode, ok |-> ok]

(* -------------------------------- Init -------------------------------- *)

ReqFiles == {Absent, Denied, Undecodable} \cup {Text(d) : d \in SeqsUpTo(ReqChars, MaxReqLen)}

ReadmeFiles == {Absent, Denied, Undecodable} \cup {Text(d) : d \in SeqsUpTo(ReadmeChars, MaxReadmeLen)}

PkgInitFiles == {Absent, Text(<<>>)}

Init ==
    /\ pc = "import"
    /\ \E r \in ReqFiles, m \in ReadmeFiles, p \in PkgInitFiles :
           fs = [n \in Paths |-> IF n = REQ THEN r ELSE IF n = README THEN m ELSE p]
    /\ handles = [n \in {REQ, README} |-> "none"]
    /\ exc = FALSE
    /\ requirements = <<>>
    /\ packages = <<>>
    /\ long_description = <<>>
    /\ calls = <<>>
    /\ events = <<>>

(* ------------------------------- actions ------------------------------ *)

(* line 1: from setuptools import setup, find_packages *)
Import ==
    /\ pc = "import"
    /\ pc' = Succ("import")
    /\ UNCHANGED <<fs, handles, exc, requirements, packages, long_description,
                   calls, events>>

(* line 3: with open('requirements.txt') as f *)
OpenRequirements ==
    /\ pc = "open_req"
    /\ LET r == open(fs, REQ, ReadMode)
       IN  /\ fs' = r.fs
           /\ events' = Append(events, Event("open", REQ, ReadMode, r.ok))
           /\ IF r.ok
              THEN /\ handles' = [handles EXCEPT ![REQ] = "open"]
                   /\ pc' = Succ("open_req")
              ELSE /\ handles' = handles
                   /\ pc' = Propagate("open_req")
    /\ UNCHANGED <<exc, requirements, packages, long_description, calls>>

(* line 4: requirements = f.read().splitlines() *)
ReadRequirements ==
    /\ pc = "read_req"
    /\ handles[REQ] = "open"
    /\ IF fs[REQ].kind = "text"
       THEN /\ requirements' = splitlines(read(fs[REQ].data))
            /\ exc' = FALSE
            /\ events' = Append(events, Event("read", REQ, ReadMode, TRUE))
       ELSE /\ requirements' = requirements
            /\ exc' = TRUE
            /\ events' = Append(events, Event("read", REQ, ReadMode, FALSE))
    /\ pc' = Succ("read_req")
    /\ UNCHANGED <<fs, handles, packages, long_description, calls>>

(* lines 3-4: leaving the with block, normally or by the exception of the
   body, which is then raised again. *)
ExitWith ==
    /\ pc = "exit_with"
    /\ handles' = [handles EXCEPT ![REQ] = WithExit(handles[REQ], exc)]
    /\ pc' = IF exc THEN Propagate("exit_with") ELSE Succ("exit_with")
    /\ UNCHANGED <<fs, exc, requirements, packages, long_description, calls, events>>

(* line 12: packages=find_packages() *)
FindPackages ==
    /\ pc = "find_packages"
    /\ packages' = find_packages(fs)
    /\ pc' = Succ("find_packages")
    /\ UNCHANGED <<fs, handles, exc, requirements, long_description, calls, events>>

(* line 18: open('README.md') *)
OpenReadme ==
    /\ pc = "open_readme"
    /\ LET r == open(fs, README, ReadMode)
       IN  /\ fs' = r.fs
           /\ events' = Append(events, Event("open", README, ReadMode, r.ok))
           /\ IF r.ok
              THEN /\ handles' = [handles EXCEPT ![README] = "open"]
                   /\ pc' = Succ("open_readme")
              ELSE /\ handles' = handles
                   /\ pc' = Propagate("open_readme")
    /\ UNCHANGED <<exc, requirements, packages, long_description, calls>>

(* line 18: .read() on the unnamed handle.  The script never closes it; the
   runtime may finalize the unreferenced object at once (reference
   counting) or leave it open until the process ends. *)
ReadReadme ==
    /\ pc = "read_readme"
    /\ handles[README] = "open"
    /\ IF fs[README].kind = "text"
       THEN /\ long_description' = read(fs[README].data)
            /\ events' = Append(events, Event("read", README, ReadMode, TRUE))
            /\ pc' = Succ("read_readme")
       ELSE /\ long_description' = long_description
            /\ events' = Append(events, Event("read", README, ReadMode, FALSE))
            /\ pc' = Propagate("read_readme")
    /\ \E h \in {"open", "finalized"} : handles' = [handles EXCEPT ![README] = h]
    /\ UNCHANGED <<fs, exc, requirements, packages, calls>>

(* lines 7-28: the call of setup() with the evaluated keyword arguments;
   it is the last statement of the script. *)
CallSetup ==
    /\ pc = "setup"
    /\ calls' = Append(calls, SetupKwargs(requirements, packages, long_description))
    /\ events' = Append(events, Event("setup", "-", "-", TRUE))
    /\ pc' = Succ("setup")
    /\ UNCHANGED <<fs, handles, exc, requirements, packages, long_description>>

Next ==
    \/ Import
    \/ OpenRequirements
    \/ ReadRequirements
    \/ ExitWith
    \/ FindPackages
    \/ OpenReadme
    \/ ReadReadme
    \/ CallSetup

Spec == Init /\ [][Next]_vars

(* ------------------------- notions of the claims ---------------------- *)

CannotOpen(n) == fs[n].kind \in {"absent", "denied"}

Readable(n) == fs[n].kind = "text"

Terminated == ~ENABLED Next

Opens(n) == {i \in DOMAIN events : events[i].op = "open" /\ events[i].file = n}

(* The lines of a file as a file has them (what iterating over the file or
   readlines() gives): a line ends at "\n", "\r\n" or "\r" and nowhere
   else, and a last line without terminator counts when it is not empty. *)
RECURSIVE ScanLines(_, _, _)
ScanLines(raw, cur, acc) ==
    IF raw = <<>>
    THEN IF cur = <<>> THEN acc ELSE Append(acc, [text |-> cur, terminated |-> FALSE])
    ELSE IF raw[1] = LF
         THEN ScanLines(Tail(raw), <<>>, Append(acc, [text |-> cur, terminated |-> TRUE]))
         ELSE IF raw[1] = CR
              THEN ScanLines(IF Len(raw) >= 2 /\ raw[2] = LF THEN Tail(Tail(raw)) ELSE Tail(raw),
                             <<>>, Append(acc, [text |-> cur, terminated |-> TRUE]))
              ELSE ScanLines(Tail(raw), Append(cur, raw[1]), acc)

FileLines(raw) ==
    LET L == ScanLines(raw, <<>>, <<>>) IN [i \in 1..Len(L) |-> L[i].text]

(* The text of a file: its lines in order, each terminated line followed by
   one newline. *)
RECURSIVE JoinLines(_)
JoinLines(L) ==
    IF L = <<>> THEN <<>>
    ELSE Head(L).text \o (IF Head(L).terminated THEN <<LF>> ELSE <<>>) \o JoinLines(Tail(L))

FileText(raw) == JoinLines(ScanLines(raw, <<>>, <<>>))

Whitespace == {" ", FF}

StatementOrder ==
    << [op |-> "open",  file |-> REQ],
       [op |-> "read",  file |-> REQ],
       [op |-> "open",  file |-> README],
       [op |-> "read",  file |-> README],
       [op |-> "setup", file |-> "-"] >>

(* -------------------------------- claims ------------------------------ *)

(* C1: if requirements.txt or README.md cannot be opened, setup() is never
   called, the run cannot end anywhere but in the fatal state, no file is
   opened a second time (no retry), and the failed open is the last thing
   the run did (no fallback value is carried on). *)
C1_OpenFailureIsFatal ==
    (CannotOpen(REQ) \/ CannotOpen(README)) =>
        /\ calls = <<>>
        /\ pc # "done"
        /\ (Terminated => pc = "fatal")
        /\ \A n \in {REQ, README} : Cardinality(Opens(n)) <= 1
        /\ \A i \in DOMAIN events :
               (events[i].op = "open" /\ ~events[i].ok) => (i = Len(events) /\ pc = "fatal")

C1_Witness ==
    /\ pc = "fatal"
    /\ Readable(REQ)
    /\ CannotOpen(README)
    /\ requirements # <<>>
    /\ events[Len(events)] = Event("open", README, "r", FALSE)

(* C2: the file operations and the call happen in the one order open
   requirements.txt, read it, open README.md, read it, setup(); each
   happens only after all the earlier ones succeeded, so README.md is not
   opened after a failed read of requirements.txt. *)
C2_FixedOrder ==
    /\ Len(events) <= Len(StatementOrder)
    /\ \A i \in DOMAIN events :
           /\ events[i].op = StatementOrder[i].op
           /\ events[i].file = StatementOrder[i].file
           /\ (i < Len(events) => events[i].ok)
    /\ (\E i \in DOMAIN events : events[i].op = "read" /\ events[i].file = REQ /\ ~events[i].ok)
           => Opens(README) = {}

C2_Witness ==
    /\ pc = "done"
    /\ Len(events) = 5
    /\ events[5].op = "setup"

(* C3: install_requires is exactly the sequence of the lines of
   requirements.txt, terminators removed. *)
C3_InstallRequiresAreFileLines ==
    pc = "done" => calls[1].install_requires = FileLines(fs[REQ].data)

(* C4: when setup() is called the literal keyword arguments have the values
   written in the script whatever the two files hold, and long_description
   is the whole text of README.md. *)
C4_LiteralFields ==
    pc = "done" =>
        LET d == calls[1]
        IN  /\ d.name = "my_package"
            /\ d.version = "0.1"
            /\ d.python_requires = ">=3.8"
            /\ d.author = "Abdellah HALLOU"
            /\ d.author_email = "abdeallahhallou33@gmail.com"
            /\ d.description = "A short description of your package"
            /\ d.long_description_content_type = "text/markdown"
            /\ d.classifiers = <<"Programming Language :: Python :: 3.8",
                                 "License :: OSI Approved :: MIT License",
                                 "Operating System :: OS Independent">>
            /\ d.include_package_data = TRUE
            /\ d.long_description = FileText(fs[README].data)

C4_Witness ==
    /\ pc = "done"
    /\ Len(calls[1].long_description) = 2
    /\ calls[1].install_requires # <<>>
    /\ calls[1].name = "my_package"

(* C5: setup() is called at most once; a run that has ended with both files
   readable has called it exactly once; no run stops before its end; and
   once setup() has been called no step of the script is left. *)
C5_SetupCalledOnce ==
    /\ Len(calls) <= 1
    /\ (pc \notin {"done", "fatal"} => ENABLED Next)
    /\ (Terminated /\ Readable(REQ) /\ Readable(README) => Len(calls) = 1)
    /\ (Len(calls) = 1 => pc = "done" /\ Terminated)

C5_Witness ==
    /\ Len(calls) = 1
    /\ Terminated
    /\ Readable(REQ)
    /\ Readable(README)

(* C6: no step of the script changes the file system, and every open is an
   open for reading. *)
C6_FileSystemUnchanged ==
    [][ /\ fs' = fs
        /\ \A i \in DOMAIN events' : events'[i].op = "open" => events'[i].mode = "r" ]_vars

C6_Witness ==
    /\ pc = "done"
    /\ \E i \in Opens(REQ) : events[i].ok
    /\ \E i \in Opens(README) : events[i].ok
    /\ fs[REQ].data # <<>>
    /\ fs[README].data # <<>>

(* C7: the keyword arguments passed to setup() list the plugin
   'setuptools-git-versioning' in setup_requires and carry a version_config
   whose dirty_template is "{tag}". *)
C7_VersioningDelegated ==
    pc = "done" =>
        LET d == calls[1]
        IN  /\ \E i \in DOMAIN d.setup_requires : d.setup_requires[i] = "setuptools-git-versioning"
            /\ "version_config" \in DOMAIN d
            /\ d.version_config.dirty_template = "{tag}"

C7_Witness ==
    /\ pc = "done"
    /\ Len(calls) = 1
    /\ calls[1].setup_requires # <<>>

(* C8: the lines of requirements.txt pass unfiltered: a blank line gives an
   empty entry, a comment line or a line with surrounding whitespace is
   kept verbatim, an empty file gives the empty list, and a final line
   terminator adds no trailing empty entry. *)
C8_LinesUnfiltered ==
    pc = "done" =>
        LET raw   == fs[REQ].data
            lines == FileLines(raw)
            out   == calls[1].install_requires
        IN  /\ \A i \in DOMAIN lines :
                   lines[i] = <<>> => (i \in DOMAIN out /\ out[i] = <<>>)
            /\ \A i \in DOMAIN lines :
                   (lines[i] # <<>> /\ (lines[i][1] = "#" \/ lines[i][1] \in Whitespace
                                        \/ lines[i][Len(lines[i])] \in Whitespace))
                       => (i \in DOMAIN out /\ out[i] = lines[i])
            /\ (raw = <<>> => out = <<>>)
            /\ ((raw # <<>> /\ raw[Len(raw)] \in {LF, CR}) => Len(out) = Len(lines))

(* C9: the handle on requirements.txt is open only inside the with block,
   it is closed wherever README.md has been opened or setup() called, also
   after a read that raised, and the script never closes the handle on
   README.md. *)
C9_RequirementsHandleClosed ==
    /\ (handles[REQ] = "open" => pc \in {"read_req", "exit_with"})
    /\ ((Opens(README) # {} \/ calls # <<>>) => handles[REQ] = "closed")
    /\ ((\E i \in DOMAIN events : events[i].op = "read" /\ events[i].file = REQ)
            /\ pc \notin {"read_req", "exit_with"} => handles[REQ] = "closed")
    /\ handles[README] # "closed"

C9_Witness ==
    /\ pc = "fatal"
    /\ fs[REQ].kind = "undecodable"
    /\ events[Len(events)] = Event("read", REQ, "r", FALSE)
    /\ handles[REQ] = "closed"

====
